---- MODULE Spec2Model ----
(***************************************************************************)
(* State-machine model of the indexing / search engine of spyglass         *)
(* (src-tauri/src/lib.rs): IndexState and the commands start_indexing,     *)
(* get_index_progress, search_index, load_saved_index, get_index_count,    *)
(* together with the scan worker thread, its progress-sync thread and the  *)
(* recursive index_directory walk.                                         *)
(*                                                                         *)
(* Strings are sequences of one-character strings, so that to_lowercase,   *)
(* contains, starts_with and len are computed and not assumed.             *)
(***************************************************************************)
EXTENDS Integers, Sequences, FiniteSets, TLC

(***************************************************************************)
(* Bounds of the model.                                                    *)
(***************************************************************************)
\* Number of start_indexing invocations in one behaviour.
MaxStarts == 2

(***************************************************************************)
(* Program constants.                                                      *)
(***************************************************************************)
\* lib.rs:499  .take(100)
TopN == 100
\* lib.rs:254  entries.len() % 100 == 0
FileCountEvery == 100
\* lib.rs:453  50 - (e.name.len() as i32).min(50)
LenCap == 50
\* lib.rs:435, 439, 444, 449, 457
ExactBonus == 1000
PrefixBonus == 500
BoundaryBonus == 300
DirBonus == 200
ProjectsBonus == 100

(***************************************************************************)
(* Strings.                                                                *)
(***************************************************************************)
UpperChars == <<"A", "B", "D", "E", "L", "T">>
LowerChars == <<"a", "b", "d", "e", "l", "t">>

\* char::to_lowercase on the ASCII letters of the model's alphabet.
ToLowerChar(c) ==
    IF \E i \in 1..Len(UpperChars) : UpperChars[i] = c
    THEN LowerChars[CHOOSE i \in 1..Len(UpperChars) : UpperChars[i] = c]
    ELSE c

\* str::to_lowercase
ToLowercase(s) == [i \in 1..Len(s) |-> ToLowerChar(s[i])]

\* str::contains(&str)
Contains(s, sub) ==
    \E i \in 0..(Len(s) - Len(sub)) : SubSeq(s, i + 1, i + Len(sub)) = sub

\* str::starts_with(&str)
StartsWith(s, p) == Len(p) <= Len(s) /\ SubSeq(s, 1, Len(p)) = p

\* str::starts_with('.')
StartsWithDot(name) == Len(name) > 0 /\ name[1] = "."

Min(a, b) == IF a <= b THEN a ELSE b

(***************************************************************************)
(* The file system seen by fs::read_dir and Path::is_dir.  A tree is a     *)
(* sequence of nodes; node i has a base name, a parent (0 is the home      *)
(* directory), a kind, and says whether listing it succeeds.  read_dir     *)
(* yields the children in node order.                                      *)
(***************************************************************************)
HomePath == <<"/", "h">>

Node(name, parent, dir, listable) ==
    [name |-> name, parent |-> parent, dir |-> dir, listable |-> listable]

\* lib.rs:262  the directories never descended into
ExcludedNames ==
    { <<"n","o","d","e","_","m","o","d","u","l","e","s">>,
      <<"t","a","r","g","e","t">>,
      <<".","g","i","t">>,
      <<"d","i","s","t">>,
      <<"b","u","i","l","d">>,
      <<".","n","e","x","t">>,
      <<"v","e","n","d","o","r">>,
      <<"_","_","p","y","c","a","c","h","e","_","_">>,
      <<".","v","e","n","v">>,
      <<"v","e","n","v">>,
      <<".","c","a","r","g","o">>,
      <<"L","i","b","r","a","r","y">>,
      <<".","T","r","a","s","h">>,
      <<"A","p","p","l","i","c","a","t","i","o","n","s">> }


IdSeq(n) == [i \in 1..n |-> i]

\* fs::read_dir(path) on a directory that can be listed: its children, in
\* listing order.
Children(t, d) == SelectSeq(IdSeq(Len(t.nodes)), LAMBDA i : t.nodes[i].parent = d)

\* fs::read_dir(path) succeeds (lib.rs:217).
Listable(t, d) == IF d = 0 THEN t.rootListable ELSE t.nodes[d].listable

\* entry.path(): the directory's path joined with the base name.
RECURSIVE PathOf(_, _)
PathOf(t, n) ==
    IF n = 0 THEN HomePath
    ELSE PathOf(t, t.nodes[n].parent) \o <<"/">> \o t.nodes[n].name

\* Path::file_name: the text after the last separator, None when there is none.
FileName(path) ==
    LET slashes == {i \in 1..Len(path) : path[i] = "/"}
        last == IF slashes = {} THEN 0
                ELSE CHOOSE i \in slashes : \A j \in slashes : j <= i
    IN SubSeq(path, last + 1, Len(path))

\* lib.rs:222-224  parent_folder of the entries of the directory at `path`.
ParentFolder(path) == IF FileName(path) = <<>> THEN <<"~">> ELSE FileName(path)

\* lib.rs:245-250  the IndexEntry pushed for child n of tree t.
MakeEntry(t, n) ==
    [name |-> t.nodes[n].name,
     path |-> PathOf(t, n),
     is_directory |-> t.nodes[n].dir,
     parent_folder |-> ParentFolder(PathOf(t, t.nodes[n].parent))]

\* The hidden test with the flag inverted.
SkipEntryFlagInverted(skip_hidden, name) == ~skip_hidden /\ StartsWithDot(name)

\* lib.rs:237  if skip_hidden && name.starts_with('.') { continue; }
SkipEntry(skip_hidden, name) == skip_hidden /\ StartsWithDot(name)

\* Every directory is queued, the exclusion list is not consulted.
QueueEveryDirectory(is_dir, name) == is_dir

\* lib.rs:260-262  a directory is queued for descent unless its name is excluded.
QueueForDescent(is_dir, name) == is_dir /\ name \notin ExcludedNames

\* A listing error that ends the whole walk.
AbortWalk(pending) == <<>>

\* lib.rs:217-220  a listing error returns from this call only: the caller's
\* loop over the remaining subdirectories goes on.
AfterListingError(pending) == Tail(pending)

\* lib.rs:278-280  the subdirectories of the finished directory are walked, in
\* order and each to its end, before the rest of the caller's subdirectories.
AfterDirectory(subdirs, pending) == subdirs \o Tail(pending)

(***************************************************************************)
(* Trees.                                                                  *)
(***************************************************************************)
\* home/.h, home/d/Ab
SmallTree ==
    [rootListable |-> TRUE,
     nodes |-> << Node(<<".","h">>, 0, FALSE, TRUE),
                  Node(<<"d">>, 0, TRUE, TRUE),
                  Node(<<"A","b">>, 2, FALSE, TRUE) >>]

\* The same, when the home directory cannot be listed.
SmallLocked == [SmallTree EXCEPT !.rootListable = FALSE]

\* home/.h, home/De
TinyTree ==
    [rootListable |-> TRUE,
     nodes |-> << Node(<<".","h">>, 0, FALSE, TRUE),
                  Node(<<"D","e">>, 0, FALSE, TRUE) >>]

\* The same, when the home directory cannot be listed.
TinyLocked == [TinyTree EXCEPT !.rootListable = FALSE]

\* Hidden files and directories, excluded directories, a directory whose
\* listing fails, and plain directories after it.
RichTree ==
    [rootListable |-> TRUE,
     nodes |-> << Node(<<".","h">>, 0, FALSE, TRUE),
                  Node(<<".","c">>, 0, TRUE, TRUE),
                  Node(<<"x">>, 2, FALSE, TRUE),
                  Node(<<"t","a","r","g","e","t">>, 0, TRUE, TRUE),
                  Node(<<"y">>, 4, FALSE, TRUE),
                  Node(<<".","g","i","t">>, 0, TRUE, TRUE),
                  Node(<<"z">>, 6, FALSE, TRUE),
                  Node(<<"p">>, 0, TRUE, FALSE),
                  Node(<<"q">>, 8, FALSE, TRUE),
                  Node(<<"d">>, 0, TRUE, TRUE),
                  Node(<<"A","b">>, 10, FALSE, TRUE),
                  Node(<<"d","i","s","t">>, 10, TRUE, TRUE),
                  Node(<<"w">>, 12, TRUE, TRUE),
                  Node(<<".","k">>, 10, TRUE, TRUE),
                  Node(<<"v">>, 14, FALSE, TRUE) >>]

\* The same tree with every directory listable.
ReadableTree ==
    [rootListable |-> TRUE,
     nodes |-> [i \in 1..Len(RichTree.nodes) |->
                    [RichTree.nodes[i] EXCEPT !.listable = TRUE]]]

\* The home directory itself cannot be listed.
LockedTree == [RichTree EXCEPT !.rootListable = FALSE]

(***************************************************************************)
(* search_index (lib.rs:404-502).                                          *)
(***************************************************************************)
\* The word-boundary tier is tested before the prefix tier and given its bonus.
TextTierBoundaryFirst(name_lower, query_lower) ==
    IF name_lower = query_lower THEN ExactBonus
    ELSE IF \/ Contains(name_lower, <<"-">> \o query_lower)
            \/ Contains(name_lower, <<"_">> \o query_lower) THEN PrefixBonus
    ELSE IF StartsWith(name_lower, query_lower) THEN BoundaryBonus
    ELSE 0

\* lib.rs:434-445  exact, else prefix, else "-q" / "_q", else nothing.
TextTier(name_lower, query_lower) ==
    IF name_lower = query_lower THEN ExactBonus
    ELSE IF StartsWith(name_lower, query_lower) THEN PrefixBonus
    ELSE IF \/ Contains(name_lower, <<"-">> \o query_lower)
            \/ Contains(name_lower, <<"_">> \o query_lower) THEN BoundaryBonus
    ELSE 0

\* lib.rs:431-458  the score of entry e, whose lowercase name is name_lower.
ScoreOf(name_lower, e, query_lower) ==
    TextTier(name_lower, query_lower)
    + (IF e.is_directory THEN DirBonus ELSE 0)
    + (LenCap - Min(Len(e.name), LenCap))
    + (IF Contains(e.path, <<"/","p","r","o","j","e","c","t","s","/">>)
       THEN ProjectsBonus ELSE 0)

\* lib.rs:495  scored.sort_by(|a, b| b.0.cmp(&a.0)): stable, descending score.
RECURSIVE SortByScoreDesc(_)
SortByScoreDesc(scored) ==
    IF scored = <<>> THEN <<>>
    ELSE LET h == Head(scored)
             rest == SortByScoreDesc(Tail(scored))
             above == SelectSeq(rest, LAMBDA x : x[1] > h[1])
             below == SelectSeq(rest, LAMBDA x : x[1] <= h[1])
         IN above \o <<h>> \o below

\* lib.rs:498-501  .take(100).map(|(_, e)| e.clone())
TakeTop(sorted) == [k \in 1..Min(TopN, Len(sorted)) |-> sorted[k][2]]

\* lib.rs:421-428, 464  the lowercase name the filter and the score use for the
\* idx-th entry: the side table when its length matches, else computed.
NameLowerAt(ents, lowers, idx) ==
    IF Len(lowers) = Len(ents) THEN lowers[idx] ELSE ToLowercase(ents[idx].name)

\* lib.rs:414-502
search_index(ents, lowers, query) ==
    IF query = <<>> THEN <<>>
    ELSE LET query_lower == ToLowercase(query)
             hits == SelectSeq(IdSeq(Len(ents)),
                        LAMBDA i : Contains(NameLowerAt(ents, lowers, i), query_lower))
             scored == [k \in 1..Len(hits) |->
                          << ScoreOf(NameLowerAt(ents, lowers, hits[k]),
                                     ents[hits[k]], query_lower),
                             ents[hits[k]] >>]
         IN TakeTop(SortByScoreDesc(scored))

(***************************************************************************)
(* The index file (lib.rs:383-390, 505-516): a JSON array of objects; an   *)
(* object is a sequence of <<key, value>> members.                         *)
(***************************************************************************)
\* The last field is written under another name.
SerializeRenamed(ents) ==
    [i \in 1..Len(ents) |->
        << <<"name", ents[i].name>>,
           <<"path", ents[i].path>>,
           <<"is_directory", ents[i].is_directory>>,
           <<"parentFolder", ents[i].parent_folder>> >>]

\* serde_json::to_string(&*entries)
Serialize(ents) ==
    [i \in 1..Len(ents) |->
        << <<"name", ents[i].name>>,
           <<"path", ents[i].path>>,
           <<"is_directory", ents[i].is_directory>>,
           <<"parent_folder", ents[i].parent_folder>> >>]

EntryKeys == {"name", "path", "is_directory", "parent_folder"}

Member(obj, key) == obj[CHOOSE k \in 1..Len(obj) : obj[k][1] = key][2]

\* Content that does not parse is taken for an empty index.
DeserializeLenient(content) == [ok |-> TRUE, entries |-> <<>>]

\* An object deserializes to an IndexEntry when each field occurs once.
WellFormed(obj) ==
    \A key \in EntryKeys : Cardinality({k \in 1..Len(obj) : obj[k][1] = key}) = 1

\* serde_json::from_str::<Vec<IndexEntry>>(&content)
Deserialize(content) ==
    IF \A i \in 1..Len(content) : WellFormed(content[i])
    THEN [ok |-> TRUE,
          entries |-> [i \in 1..Len(content) |->
                         [name |-> Member(content[i], "name"),
                          path |-> Member(content[i], "path"),
                          is_directory |-> Member(content[i], "is_directory"),
                          parent_folder |-> Member(content[i], "parent_folder")]]]
    ELSE [ok |-> FALSE, entries |-> <<>>]

NoFile == [exists |-> FALSE, readable |-> FALSE, content |-> <<>>]
File(content) == [exists |-> TRUE, readable |-> TRUE, content |-> content]

\* Index files left by an earlier session, when the tree looked different.
OldEntryBe == [name |-> <<"b","e">>, path |-> HomePath \o <<"/","b","e">>,
              is_directory |-> FALSE, parent_folder |-> <<"h">>]
OldEntryD == [name |-> <<"d">>, path |-> HomePath \o <<"/","d">>,
              is_directory |-> TRUE, parent_folder |-> <<"h">>]
OldIndexTwo == File(Serialize(<<OldEntryBe, OldEntryD>>))
OldIndexOne == File(Serialize(<<OldEntryBe>>))
\* A truncated file: an object without its last fields.
MalformedIndex == File(<< << <<"name", <<"b","e">>>> >> >>)
\* A file that exists and cannot be read (fs::read_to_string returns Err).
UnreadableIndex == [OldIndexOne EXCEPT !.readable = FALSE]

(***************************************************************************)
(* State.                                                                  *)
(***************************************************************************)
VARIABLES
    fs,            \* the directory tree under the home directory
    homeOk,        \* dirs::home_dir() is Some
    disk,          \* the index file
    entries,       \* IndexState.entries
    lower_names,   \* IndexState.lower_names
    progress,      \* IndexState.progress
    is_indexing,   \* IndexState.is_indexing
    entriesLock,   \* holder of the entries mutex across steps
    lowerLock,     \* holder of the lower_names mutex across steps
    call,          \* start_indexing invocations: position and last return value
    nStarts,       \* start_indexing invocations so far
    nSpawned,      \* scan workers spawned so far
    worker,        \* the scan workers and their progress-sync threads
    searchPc,      \* search_index invocation: position
    searchQuery,   \* its query
    searchResult,  \* its last return value
    searchInScan,  \* history: a scan worker was running when it returned
    loadPc,        \* load_saved_index invocation: position
    loadBuf,       \* its parsed entries
    loadRet,       \* its last return value
    polled,        \* last return value of get_index_progress
    countResult,   \* last return value of get_index_count
    committed,     \* history: the snapshots handed to the store so far
    persisted      \* history: what the worker that wrote the index file last
                   \* had committed, <<>> while no worker has written it

vars == << fs, homeOk, disk, entries, lower_names, progress, is_indexing,
           entriesLock, lowerLock, call, nStarts, nSpawned, worker, searchPc, searchQuery,
           searchResult, searchInScan, loadPc, loadBuf, loadRet, polled, countResult,
           committed, persisted >>

shared == << entries, lower_names, progress, is_indexing, entriesLock, lowerLock >>
envVars == << fs, homeOk >>
startVars == << call, nStarts, nSpawned >>
searchVars == << searchPc, searchQuery, searchResult, searchInScan >>
loadVars == << loadPc, loadBuf, loadRet >>
pollVars == << polled, countResult >>

Callers == {"c1", "c2"}
Workers == 1..MaxStarts
Queries == { <<>>, <<"B">>, <<"e">>, <<"l","o","g">> }

\* IndexProgress::default()
DefaultProgress ==
    [total_folders |-> 0, indexed_folders |-> 0, total_files |-> 0,
     current_folder |-> <<>>, is_complete |-> FALSE]

\* lib.rs:319-325  the worker's private progress record.
FreshProgress(total_folders) ==
    [total_folders |-> total_folders, indexed_folders |-> 0, total_files |-> 0,
     current_folder |-> <<>>, is_complete |-> FALSE]

NoWorker ==
    [pc |-> "none", new_entries |-> <<>>, new_lower_names |-> <<>>,
     prog |-> DefaultProgress, pending |-> <<>>, rem |-> <<>>, subdirs |-> <<>>,
     total_files |-> 0, sync |-> "none", snapshot |-> <<>>]

\* (snapshot is history: what the worker handed to the store at lib.rs:367.)

\* lib.rs:313-352  the worker as spawned: empty buffers, its private progress,
\* its sync thread started, index_directory(&home_dir, ..) about to run.
SpawnedWorker ==
    [NoWorker EXCEPT !.pc = "readdir", !.prog = FreshProgress(1),
                     !.pending = <<0>>, !.sync = "sleep"]

DoneWorker == [NoWorker EXCEPT !.pc = "done", !.sync = "done"]

\* The stages of a worker before it clears is_indexing.
ScanPcs == {"readdir", "loop", "mark", "join", "commitEntries", "commitLower",
            "commitProgress", "clearFlag"}
\* The stages before the worker replaces the snapshot.
PreCommitPcs == {"readdir", "loop", "mark", "join", "commitEntries"}

ActiveWorkers == {w \in Workers : worker[w].pc \in ScanPcs}
UncommittedWorkers == {w \in Workers : worker[w].pc \in PreCommitPcs}
CommittedWorkers == {w \in Workers : worker[w].pc \notin PreCommitPcs \cup {"none"}}

\* The private progress mutex of worker w is held across steps by its sync
\* thread only (lib.rs:336-340).
PrivateFree(w) == worker[w].sync # "copy"

InitCommon ==
    /\ entries = <<>>
    /\ lower_names = <<>>
    /\ progress = DefaultProgress
    /\ is_indexing = FALSE
    /\ entriesLock = "free"
    /\ lowerLock = "free"
    /\ call = [c \in Callers |-> [pc |-> "idle", ret |-> "none"]]
    /\ nStarts = 0
    /\ nSpawned = 0
    /\ worker = [w \in Workers |-> NoWorker]
    /\ searchPc = "idle"
    /\ searchQuery = <<>>
    /\ searchResult = <<>>
    /\ searchInScan = FALSE
    /\ loadPc = "idle"
    /\ loadBuf = <<>>
    /\ loadRet = FALSE
    /\ polled = [scans |-> 0, inScan |-> FALSE, value |-> DefaultProgress]
    /\ countResult = 0
    /\ committed = { <<>> }
    /\ persisted = <<>>

\* The environment of one process: a tree, a home directory that is found or
\* not, and the index file an earlier session left.
InitEnv(trees, files) ==
    /\ fs \in trees
    /\ homeOk \in BOOLEAN
    /\ disk \in files
    /\ InitCommon

Init ==
    InitEnv({SmallTree, SmallLocked}, {NoFile, MalformedIndex, UnreadableIndex, OldIndexOne, OldIndexTwo})

(***************************************************************************)
(* start_indexing, the calling side (lib.rs:284-311, 393).                 *)
(***************************************************************************)
Return(c, value) == [call EXCEPT ![c] = [pc |-> "idle", ret |-> value]]
Goto(c, pc) == [call EXCEPT ![c].pc = pc]

\* lib.rs:288-293, second half: the flag is set, the call is a no-op.
StartCheckBusy(c) ==
    /\ call[c].pc = "idle"
    /\ nStarts < MaxStarts
    /\ is_indexing
    /\ nStarts' = nStarts + 1
    /\ call' = Return(c, "Ok")
    /\ UNCHANGED << envVars, disk, persisted, shared, nSpawned, worker, searchVars,
                    loadVars, pollVars, committed >>

\* lib.rs:288-293: the flag is read under its lock, the lock is released.
StartCheckFree(c) ==
    /\ call[c].pc = "idle"
    /\ nStarts < MaxStarts
    /\ ~is_indexing
    /\ nStarts' = nStarts + 1
    /\ call' = Goto(c, "set")
    /\ UNCHANGED << envVars, disk, persisted, shared, nSpawned, worker, searchVars,
                    loadVars, pollVars, committed >>

\* lib.rs:296-299: the lock is taken again and the flag set.
StartSet(c) ==
    /\ call[c].pc = "set"
    /\ is_indexing' = TRUE
    /\ call' = Goto(c, "home")
    /\ UNCHANGED << envVars, disk, persisted, entries, lower_names, progress, entriesLock, lowerLock,
                    nStarts, nSpawned, worker, searchVars, loadVars, pollVars,
                    committed >>

\* lib.rs:302: dirs::home_dir() is None, `?` returns the error.
StartHomeMissing(c) ==
    /\ call[c].pc = "home"
    /\ ~homeOk
    /\ call' = Return(c, "Err")
    /\ UNCHANGED << envVars, disk, persisted, shared, nStarts, nSpawned, worker,
                    searchVars, loadVars, pollVars, committed >>

\* lib.rs:302-309: the home directory is found; total_folders is set to 1.
StartProgress(c) ==
    /\ call[c].pc = "home"
    /\ homeOk
    /\ progress' = [progress EXCEPT !.total_folders = 1]
    /\ call' = Goto(c, "spawn")
    /\ UNCHANGED << envVars, disk, persisted, entries, lower_names, is_indexing,
                    entriesLock, lowerLock, nStarts, nSpawned, worker, searchVars,
                    loadVars, pollVars, committed >>

\* lib.rs:313, 393: the worker is spawned and the call returns Ok.
StartSpawn(c) ==
    /\ call[c].pc = "spawn"
    /\ nSpawned' = nSpawned + 1
    /\ worker' = [worker EXCEPT ![nSpawned + 1] = SpawnedWorker]
    /\ call' = Return(c, "Ok")
    /\ UNCHANGED << envVars, disk, persisted, shared, nStarts, searchVars, loadVars,
                    pollVars, committed >>

(***************************************************************************)
(* index_directory (lib.rs:210-281), run by worker w.  The recursion is    *)
(* kept as the list of directories still to walk, the current one first.   *)
(***************************************************************************)
NextDirPc(pending) == IF pending = <<>> THEN "mark" ELSE "readdir"

workerOnly == << envVars, disk, persisted, shared, startVars, searchVars, loadVars,
                 pollVars, committed >>

\* lib.rs:217-220: read_dir fails, this call returns.
ReadDirFail(w) ==
    /\ worker[w].pc = "readdir"
    /\ ~Listable(fs, Head(worker[w].pending))
    /\ LET pending == AfterListingError(worker[w].pending)
       IN worker' = [worker EXCEPT ![w].pending = pending,
                                   ![w].pc = NextDirPc(pending)]
    /\ UNCHANGED workerOnly

\* lib.rs:217-231: read_dir succeeds; current_folder is set under the private
\* progress lock.
ReadDirOk(w) ==
    /\ worker[w].pc = "readdir"
    /\ Listable(fs, Head(worker[w].pending))
    /\ PrivateFree(w)
    /\ LET d == Head(worker[w].pending)
       IN worker' = [worker EXCEPT ![w].prog.current_folder = PathOf(fs, d),
                                   ![w].rem = Children(fs, d),
                                   ![w].subdirs = <<>>,
                                   ![w].pc = "loop"]
    /\ UNCHANGED workerOnly

\* lib.rs:233-239: a hidden child is passed over.
EntryHidden(w) ==
    /\ worker[w].pc = "loop"
    /\ worker[w].rem # <<>>
    /\ SkipEntry(TRUE, fs.nodes[Head(worker[w].rem)].name)
    /\ worker' = [worker EXCEPT ![w].rem = Tail(@)]
    /\ UNCHANGED workerOnly

\* lib.rs:241-268: the child gets an entry and a lowercase name; total_files is
\* refreshed every 100th entry; a directory that is not excluded is counted in
\* total_folders and queued.  The two progress updates are separate short lock
\* sections on the private record, taken here in one step.
EntryPush(w) ==
    /\ worker[w].pc = "loop"
    /\ worker[w].rem # <<>>
    /\ ~SkipEntry(TRUE, fs.nodes[Head(worker[w].rem)].name)
    /\ LET n == Head(worker[w].rem)
           e == MakeEntry(fs, n)
           ents == Append(worker[w].new_entries, e)
           refresh == Len(ents) % FileCountEvery = 0
           queue == QueueForDescent(e.is_directory, e.name)
           p0 == worker[w].prog
           p1 == IF refresh THEN [p0 EXCEPT !.total_files = Len(ents)] ELSE p0
           p2 == IF queue THEN [p1 EXCEPT !.total_folders = @ + 1] ELSE p1
       IN /\ (refresh \/ queue) => PrivateFree(w)
          /\ worker' = [worker EXCEPT
                  ![w].new_entries = ents,
                  ![w].new_lower_names = Append(@, ToLowercase(e.name)),
                  ![w].prog = p2,
                  ![w].subdirs = IF queue THEN Append(@, n) ELSE @,
                  ![w].rem = Tail(@)]
    /\ UNCHANGED workerOnly

\* lib.rs:271-280: the directory is done: indexed_folders and total_files are
\* updated, then its subdirectories are walked.
FinishDir(w) ==
    /\ worker[w].pc = "loop"
    /\ worker[w].rem = <<>>
    /\ PrivateFree(w)
    /\ LET pending == AfterDirectory(worker[w].subdirs, worker[w].pending)
       IN worker' = [worker EXCEPT
              ![w].prog = [@ EXCEPT !.indexed_folders = @ + 1,
                                    !.total_files = Len(worker[w].new_entries)],
              ![w].subdirs = <<>>,
              ![w].pending = pending,
              ![w].pc = NextDirPc(pending)]
    /\ UNCHANGED workerOnly

(***************************************************************************)
(* The rest of the worker (lib.rs:354-391) and its sync thread             *)
(* (lib.rs:330-350).                                                       *)
(***************************************************************************)
\* lib.rs:354-360: the private record is marked complete, with the exact count.
MarkComplete(w) ==
    /\ worker[w].pc = "mark"
    /\ PrivateFree(w)
    /\ worker' = [worker EXCEPT
           ![w].total_files = Len(worker[w].new_entries),
           ![w].prog = [@ EXCEPT !.is_complete = TRUE,
                                 !.total_files = Len(worker[w].new_entries)],
           ![w].pc = "join"]
    /\ UNCHANGED workerOnly

\* lib.rs:363: sync_handle.join()
Join(w) ==
    /\ worker[w].pc = "join"
    /\ worker[w].sync = "done"
    /\ worker' = [worker EXCEPT ![w].pc = "commitEntries"]
    /\ UNCHANGED workerOnly

\* The new entries are added to the old ones.
ExtendSnapshot(old, new) == old \o new

\* lib.rs:367, 519: *entries = new_entries
ReplaceSnapshot(old, new) == new

\* lib.rs:366-368: the entries are replaced under the entries lock.
CommitEntries(w) ==
    /\ worker[w].pc = "commitEntries"
    /\ entriesLock = "free"
    /\ entries' = ReplaceSnapshot(entries, worker[w].new_entries)
    /\ committed' = committed \cup {worker[w].new_entries}
    /\ worker' = [worker EXCEPT ![w].new_entries = <<>>,
                                ![w].snapshot = worker[w].new_entries,
                                ![w].pc = "commitLower"]
    /\ UNCHANGED << envVars, disk, persisted, lower_names, progress, is_indexing,
                    entriesLock, lowerLock, startVars, searchVars, loadVars, pollVars >>

\* lib.rs:370-372: the lowercase table is replaced under its own lock.
CommitLower(w) ==
    /\ worker[w].pc = "commitLower"
    /\ lowerLock = "free"
    /\ lower_names' = worker[w].new_lower_names
    /\ worker' = [worker EXCEPT ![w].new_lower_names = <<>>,
                                ![w].pc = "commitProgress"]
    /\ UNCHANGED << envVars, disk, persisted, entries, progress, is_indexing, entriesLock, lowerLock,
                    startVars, searchVars, loadVars, pollVars, committed >>

\* lib.rs:374-377
CommitProgress(w) ==
    /\ worker[w].pc = "commitProgress"
    /\ progress' = [progress EXCEPT !.is_complete = TRUE,
                                    !.total_files = worker[w].total_files]
    /\ worker' = [worker EXCEPT ![w].pc = "clearFlag"]
    /\ UNCHANGED << envVars, disk, persisted, entries, lower_names, is_indexing,
                    entriesLock, lowerLock, startVars, searchVars, loadVars, pollVars,
                    committed >>

\* lib.rs:379-381
ClearFlag(w) ==
    /\ worker[w].pc = "clearFlag"
    /\ is_indexing' = FALSE
    /\ worker' = [worker EXCEPT ![w].pc = "saveLock"]
    /\ UNCHANGED << envVars, disk, persisted, entries, lower_names, progress, entriesLock, lowerLock,
                    startVars, searchVars, loadVars, pollVars, committed >>

\* lib.rs:385: the entries lock is taken for the save.
SaveLock(w) ==
    /\ worker[w].pc = "saveLock"
    /\ entriesLock = "free"
    /\ entriesLock' = "save"
    /\ worker' = [worker EXCEPT ![w].pc = "saveWrite"]
    /\ UNCHANGED << envVars, disk, persisted, entries, lower_names, progress, is_indexing,
                    lowerLock, startVars, searchVars, loadVars, pollVars, committed >>

\* lib.rs:386-390: the entries are serialized and written while the lock is
\* held; the lock is released at the end of the statement.
SaveWrite(w) ==
    /\ worker[w].pc = "saveWrite"
    /\ disk' = File(Serialize(entries))
    /\ persisted' = << worker[w].snapshot >>
    /\ entriesLock' = "free"
    /\ worker' = [worker EXCEPT ![w] = DoneWorker]
    /\ UNCHANGED << envVars, entries, lower_names, progress, is_indexing,
                    lowerLock, startVars, searchVars, loadVars, pollVars, committed >>

\* lib.rs:388: `let _ = fs::write(..)`: a failed write is ignored.
SaveWriteFails(w) ==
    /\ worker[w].pc = "saveWrite"
    /\ entriesLock' = "free"
    /\ worker' = [worker EXCEPT ![w] = DoneWorker]
    /\ UNCHANGED << envVars, disk, persisted, entries, lower_names, progress, is_indexing,
                    lowerLock, startVars, searchVars, loadVars, pollVars, committed >>

\* lib.rs:332-336: after the sleep the sync thread takes the private lock.
SyncLock(w) ==
    /\ worker[w].sync = "sleep"
    /\ worker' = [worker EXCEPT ![w].sync = "copy"]
    /\ UNCHANGED workerOnly

\* Once started, the sync thread never stops.
SyncNeverStops(is_done) == "sleep"

\* lib.rs:346-348: if is_done { break; }, else the loop sleeps again.
SyncAfterCopy(is_done) == IF is_done THEN "done" ELSE "sleep"

\* lib.rs:337-348: it copies the private record over the shared one and stops
\* once the private record is complete.
SyncCopy(w) ==
    /\ worker[w].sync = "copy"
    /\ progress' = worker[w].prog
    /\ worker' = [worker EXCEPT
           ![w].sync = SyncAfterCopy(worker[w].prog.is_complete)]
    /\ UNCHANGED << envVars, disk, persisted, entries, lower_names, is_indexing,
                    entriesLock, lowerLock, startVars, searchVars, loadVars, pollVars,
                    committed >>

(***************************************************************************)
(* search_index, load_saved_index, get_index_progress, get_index_count.    *)
(***************************************************************************)
\* The mutex behind each lock name.
Holder(l) == IF l = "entries" THEN entriesLock ELSE lowerLock

\* The lowercase table is locked before the entries.
SearchLowerFirst == << "lower_names", "entries" >>

\* lib.rs:405-412: search_index locks entries, then lower_names.
SearchLockOrder == << "entries", "lower_names" >>

\* lib.rs:405-408: the first lock is taken.
SearchLock ==
    /\ searchPc = "idle"
    /\ Holder(SearchLockOrder[1]) = "free"
    /\ entriesLock' = IF SearchLockOrder[1] = "entries" THEN "search" ELSE entriesLock
    /\ lowerLock' = IF SearchLockOrder[1] = "lower_names" THEN "search" ELSE lowerLock
    /\ searchPc' = "locked"
    /\ UNCHANGED << envVars, disk, persisted, entries, lower_names, progress,
                    is_indexing, startVars, worker, searchQuery, searchResult,
                    searchInScan, loadVars, pollVars, committed >>

\* lib.rs:409-502: the second lock is taken, the result computed, both locks
\* released.
SearchRun ==
    /\ searchPc = "locked"
    /\ Holder(SearchLockOrder[2]) = "free"
    /\ \E q \in Queries :
          /\ searchQuery' = q
          /\ searchResult' = search_index(entries, lower_names, q)
    /\ searchInScan' = (ActiveWorkers # {})
    /\ entriesLock' = "free"
    /\ lowerLock' = "free"
    /\ searchPc' = "idle"
    /\ UNCHANGED << envVars, disk, persisted, entries, lower_names, progress,
                    is_indexing, startVars, worker, loadVars, pollVars, committed >>

\* lib.rs:508-510: the file does not exist.
LoadMissing ==
    /\ loadPc = "idle"
    /\ ~disk.exists
    /\ loadPc' = "fail"
    /\ UNCHANGED << envVars, disk, persisted, shared, startVars, worker, searchVars,
                    loadBuf, loadRet, pollVars, committed >>

\* lib.rs:512, 535: the file cannot be read.
LoadUnreadable ==
    /\ loadPc = "idle"
    /\ disk.exists
    /\ ~disk.readable
    /\ loadPc' = "fail"
    /\ UNCHANGED << envVars, disk, persisted, shared, startVars, worker, searchVars,
                    loadBuf, loadRet, pollVars, committed >>

\* lib.rs:512-514, 532: the content does not parse.
LoadMalformed ==
    /\ loadPc = "idle"
    /\ disk.exists
    /\ disk.readable
    /\ ~Deserialize(disk.content).ok
    /\ loadPc' = "fail"
    /\ UNCHANGED << envVars, disk, persisted, shared, startVars, worker, searchVars,
                    loadBuf, loadRet, pollVars, committed >>

\* lib.rs:509, 537: the failed load returns false.
LoadReturnFalse ==
    /\ loadPc = "fail"
    /\ loadRet' = FALSE
    /\ loadPc' = "idle"
    /\ UNCHANGED << envVars, disk, persisted, shared, startVars, worker, searchVars,
                    loadBuf, pollVars, committed >>

\* lib.rs:512-516: the file is read and parsed.
LoadParse ==
    /\ loadPc = "idle"
    /\ disk.exists
    /\ disk.readable
    /\ Deserialize(disk.content).ok
    /\ loadBuf' = Deserialize(disk.content).entries
    /\ loadPc' = "parsed"
    /\ UNCHANGED << envVars, disk, persisted, shared, startVars, worker, searchVars,
                    loadRet, pollVars, committed >>

\* lib.rs:517-519: the entries lock is taken and the entries replaced.
LoadEntries ==
    /\ loadPc = "parsed"
    /\ entriesLock = "free"
    /\ entriesLock' = "load"
    /\ entries' = ReplaceSnapshot(entries, loadBuf)
    /\ committed' = committed \cup {loadBuf}
    /\ loadPc' = "lower"
    /\ UNCHANGED << envVars, disk, persisted, lower_names, progress, is_indexing,
                    lowerLock, startVars, worker, searchVars, loadBuf, loadRet, pollVars >>

\* lib.rs:516, 520-522: the lowercase table, computed from the parsed entries.
LoadLower ==
    /\ loadPc = "lower"
    /\ lowerLock = "free"
    /\ lower_names' = [i \in 1..Len(loadBuf) |-> ToLowercase(loadBuf[i].name)]
    /\ loadPc' = "progress"
    /\ UNCHANGED << envVars, disk, persisted, entries, progress, is_indexing, entriesLock, lowerLock,
                    startVars, worker, searchVars, loadBuf, loadRet, pollVars,
                    committed >>

\* lib.rs:524-529: progress shows the loaded state; the entries lock is
\* released on return.
LoadProgress ==
    /\ loadPc = "progress"
    /\ progress' = [progress EXCEPT !.total_files = Len(loadBuf),
                                    !.is_complete = TRUE]
    /\ entriesLock' = "free"
    /\ loadBuf' = <<>>
    /\ loadRet' = TRUE
    /\ loadPc' = "idle"
    /\ UNCHANGED << envVars, disk, persisted, entries, lower_names, is_indexing,
                    lowerLock, startVars, worker, searchVars, pollVars, committed >>

\* lib.rs:397-401
get_index_progress ==
    /\ polled' = [scans |-> nSpawned + Cardinality(CommittedWorkers),
                  inScan |-> UncommittedWorkers # {},
                  value |-> progress]
    /\ UNCHANGED << envVars, disk, persisted, shared, startVars, worker, searchVars,
                    loadVars, countResult, committed >>

\* lib.rs:541-545
get_index_count ==
    /\ entriesLock = "free"
    /\ countResult' = Len(entries)
    /\ UNCHANGED << envVars, disk, persisted, shared, startVars, worker, searchVars,
                    loadVars, polled, committed >>

\* lib.rs:548-555: the process exits with nothing in flight and is started
\* again: run() installs IndexState::default().  The tree and the index file
\* stay as they are.
Restart ==
    /\ \A c \in Callers : call[c].pc = "idle"
    /\ \A w \in Workers : worker[w].pc \in {"none", "done"}
    /\ searchPc = "idle"
    /\ loadPc = "idle"
    /\ entries' = <<>>
    /\ lower_names' = <<>>
    /\ progress' = DefaultProgress
    /\ is_indexing' = FALSE
    /\ entriesLock' = "free"
    /\ lowerLock' = "free"
    /\ call' = [c \in Callers |-> [pc |-> "idle", ret |-> "none"]]
    /\ nStarts' = 0
    /\ nSpawned' = 0
    /\ worker' = [w \in Workers |-> NoWorker]
    /\ searchQuery' = <<>>
    /\ searchResult' = <<>>
    /\ searchInScan' = FALSE
    /\ loadBuf' = <<>>
    /\ loadRet' = FALSE
    /\ polled' = [scans |-> 0, inScan |-> FALSE, value |-> DefaultProgress]
    /\ countResult' = 0
    /\ committed' = { <<>> }
    /\ UNCHANGED << envVars, disk, persisted, searchPc, loadPc >>

(***************************************************************************)
(* Specifications.                                                         *)
(***************************************************************************)
StartNext(c) ==
    \/ StartCheckBusy(c)
    \/ StartCheckFree(c)
    \/ StartSet(c)
    \/ StartHomeMissing(c)
    \/ StartProgress(c)
    \/ StartSpawn(c)

WalkNext(w) ==
    \/ ReadDirFail(w)
    \/ ReadDirOk(w)
    \/ EntryHidden(w)
    \/ EntryPush(w)
    \/ FinishDir(w)
    \/ MarkComplete(w)

CommitNext(w) ==
    \/ Join(w)
    \/ CommitEntries(w)
    \/ CommitLower(w)
    \/ CommitProgress(w)
    \/ ClearFlag(w)
    \/ SaveLock(w)
    \/ SaveWrite(w)
    \/ SaveWriteFails(w)

SyncNext(w) == SyncLock(w) \/ SyncCopy(w)

StartStep == \E c \in Callers : StartNext(c)

ScanStep == \E w \in Workers : WalkNext(w) \/ CommitNext(w) \/ SyncNext(w)

SearchStep == SearchLock \/ SearchRun

LoadStep ==
    \/ LoadMissing
    \/ LoadUnreadable
    \/ LoadMalformed
    \/ LoadReturnFalse
    \/ LoadParse
    \/ LoadEntries
    \/ LoadLower
    \/ LoadProgress

\* Every operation of the engine, with two callers of start_indexing.
Next ==
    \/ StartStep
    \/ ScanStep
    \/ SearchStep
    \/ LoadStep
    \/ get_index_progress
    \/ get_index_count
    \/ Restart

Spec == Init /\ [][Next]_vars

(***************************************************************************)
(* The specifications the properties are checked under.  Each is Spec      *)
(* restricted to the operations that write the state its properties read,  *)
(* so every behaviour of one of them is a behaviour of Spec (over the      *)
(* tree and index file it starts from).                                    *)
(***************************************************************************)
\* Overlapping start_indexing calls and their workers.
NextStart == StartStep \/ ScanStep
SpecStart == InitEnv({SmallTree, SmallLocked}, {NoFile}) /\ [][NextStart]_vars

\* Searches and loads against the scans of one caller.
NextSearch == StartNext("c1") \/ ScanStep \/ SearchStep \/ LoadStep
SpecSearch ==
    InitEnv({TinyTree, TinyLocked}, {NoFile, MalformedIndex, UnreadableIndex, OldIndexOne})
    /\ [][NextSearch]_vars

\* The same against the overlapping scans of two callers.
NextSearchOverlap == StartStep \/ ScanStep \/ SearchStep \/ LoadStep
SpecSearchOverlap ==
    InitEnv({TinyTree, TinyLocked}, {NoFile, MalformedIndex, UnreadableIndex, OldIndexOne})
    /\ [][NextSearchOverlap]_vars

\* Progress polls against the scans of one caller.
NextPoll == StartNext("c1") \/ ScanStep \/ get_index_progress
SpecPoll == InitEnv({SmallTree, SmallLocked}, {NoFile}) /\ [][NextPoll]_vars

\* Loads against the scans of one caller.
NextLoad == StartNext("c1") \/ ScanStep \/ LoadStep \/ get_index_count
SpecLoad ==
    InitEnv({SmallTree, SmallLocked}, {NoFile, MalformedIndex, UnreadableIndex, OldIndexOne})
    /\ [][NextLoad]_vars

\* The walk over trees with hidden, excluded and unlistable directories.
NextScan == StartNext("c1") \/ ScanStep
SpecScan ==
    InitEnv({RichTree, ReadableTree, LockedTree}, {NoFile}) /\ [][NextScan]_vars

\* The threads are scheduled fairly.  The walk waits for the private progress
\* lock, which the sync thread holds for one copy out of each 200 ms sleep
\* (lib.rs:332), so the walk gets it: strong fairness.
FairSpecScan ==
    /\ SpecScan
    /\ \A w \in Workers :
          /\ SF_vars(WalkNext(w))
          /\ WF_vars(CommitNext(w))
          /\ WF_vars(SyncNext(w))

\* A scan, the end of the process, and loads in the process started next.
NextRoundTrip == StartNext("c1") \/ ScanStep \/ LoadStep \/ Restart
SpecRoundTrip ==
    InitEnv({SmallTree, SmallLocked}, {NoFile, MalformedIndex, UnreadableIndex, OldIndexOne})
    /\ [][NextRoundTrip]_vars

\* Four files whose names hold "log": as the whole name, at its start, after a
\* '-', and inside a word.
LogEntry(name) ==
    [name |-> name, path |-> HomePath \o <<"/">> \o name,
     is_directory |-> FALSE, parent_folder |-> <<"h">>]
LogEntries ==
    << LogEntry(<<"l","o","g">>),
       LogEntry(<<"l","o","g","g","e","r">>),
       LogEntry(<<"a","p","p","-","l","o","g">>),
       LogEntry(<<"c","a","t","a","l","o","g">>) >>
\* The index files that hold them, in each of their orders.
LogIndexFiles ==
    { File(Serialize([i \in 1..Len(LogEntries) |-> LogEntries[order[i]]])) :
        order \in Permutations(1..Len(LogEntries)) }

\* Searches against an index loaded from a file.
NextExample == LoadStep \/ SearchStep
SpecExample ==
    InitEnv({TinyTree}, {NoFile, MalformedIndex, UnreadableIndex} \cup LogIndexFiles)
    /\ [][NextExample]_vars

\* Every operation that takes the entries or the lower_names lock, against the
\* scans of one caller.  The index file a load parses is the one a scan saved.
NextLocks ==
    \/ StartNext("c1")
    \/ ScanStep
    \/ SearchStep
    \/ LoadStep
    \/ get_index_count
SpecLocks ==
    InitEnv({TinyTree, TinyLocked}, {NoFile, MalformedIndex, UnreadableIndex})
    /\ [][NextLocks]_vars

(***************************************************************************)
(* Properties.                                                             *)
(***************************************************************************)
Range(seq) == {seq[i] : i \in 1..Len(seq)}

\* No start_indexing call is part-way and no worker has steps left.
Quiescent ==
    /\ \A c \in Callers : call[c].pc = "idle"
    /\ \A w \in Workers : worker[w].pc \in {"none", "done"}
    /\ loadPc = "idle"

\* C1: at most one scan worker is active at any moment, however the
\* start_indexing calls interleave.
C1_AtMostOneActiveWorker == Cardinality(ActiveWorkers) <= 1

\* C2: a search that returns while a scan worker is running returns entries of
\* one snapshot that had been handed to the store (by a scan commit or a load)
\* when the search read it.
C2_SearchSeesOneCommittedSnapshot ==
    [][ (searchPc = "locked" /\ searchPc' = "idle" /\ ActiveWorkers # {})
        => \E snap \in committed :
              \A k \in 1..Len(searchResult') : searchResult'[k] \in Range(snap) ]_vars

\* A search returned entries of the loaded index while a worker held a
\* non-empty private buffer.
C2_Witness ==
    /\ searchInScan
    /\ searchResult # <<>>
    /\ \E w \in Workers : /\ worker[w].pc \in PreCommitPcs
                          /\ worker[w].new_entries # <<>>
                          /\ Range(worker[w].new_entries) \cap Range(searchResult) = {}

\* C3: search(q) with a non-empty q returns at most 100 entries, each with a
\* lowercased name that contains the lowercased q.
C3_SearchBoundedAndMatching ==
    searchQuery # <<>> =>
        /\ Len(searchResult) <= TopN
        /\ \A k \in 1..Len(searchResult) :
              Contains(ToLowercase(searchResult[k].name), ToLowercase(searchQuery))

\* The score the claim gives entry e for query q, from e's own name.
ClaimedScore(e, q) ==
    LET nl == ToLowercase(e.name)
        ql == ToLowercase(q)
    IN (IF nl = ql THEN 1000
        ELSE IF StartsWith(nl, ql) THEN 500
        ELSE IF Contains(nl, <<"-">> \o ql) \/ Contains(nl, <<"_">> \o ql) THEN 300
        ELSE 0)
       + (IF e.is_directory THEN 200 ELSE 0)
       + (50 - Min(Len(e.name), 50))
       + (IF Contains(e.path, <<"/","p","r","o","j","e","c","t","s","/">>)
          THEN 100 ELSE 0)

\* res is the entries of ents matching q, in non-increasing order of claimed
\* score, cut to the 100 highest.
RankedTop(ents, q, res) ==
    LET matching == {i \in 1..Len(ents) :
                        Contains(ToLowercase(ents[i].name), ToLowercase(q))}
    IN /\ Len(res) = Min(100, Cardinality(matching))
       /\ \A k \in 1..(Len(res) - 1) :
             ClaimedScore(res[k], q) >= ClaimedScore(res[k + 1], q)
       /\ \E chosen \in SUBSET matching :
             /\ \E at \in [1..Len(res) -> chosen] :
                   /\ \A k, l \in 1..Len(res) : at[k] = at[l] => k = l
                   /\ \A k \in 1..Len(res) : res[k] = ents[at[k]]
             /\ Cardinality(chosen) = Len(res)
             /\ \A i \in matching \ chosen : \A j \in chosen :
                   ClaimedScore(ents[i], q) <= ClaimedScore(ents[j], q)

\* C4: for a non-empty query, search returns the matching entries in
\* non-increasing order of score, cut to the 100 highest-scoring, with the
\* score of the claim.
C4_RankedByScore ==
    [][ (searchPc = "locked" /\ searchPc' = "idle" /\ searchQuery' # <<>>)
        => RankedTop(entries, searchQuery', searchResult') ]_vars

\* C5: with no home directory, start_indexing returns an error, spawns no
\* worker and no sync thread, and leaves the snapshot as it was.
C5_MissingHomeIsAnError ==
    ~homeOk =>
        /\ \A c \in Callers : call[c].ret # "Ok"
        /\ nSpawned = 0
        /\ \A w \in Workers : worker[w] = NoWorker
        /\ entries = <<>>

\* C6: two successive get_index_progress returns within one scan (after the
\* worker was spawned, before it replaces the snapshot, no other scan starting
\* or committing in between) do not decrease indexed_folders or total_files.
C6_ProgressMonotone ==
    [][ (polled.inScan /\ polled'.inScan /\ polled'.scans = polled.scans)
        => /\ polled'.value.indexed_folders >= polled.value.indexed_folders
           /\ polled'.value.total_files >= polled.value.total_files ]_vars

\* C7: once a scan has completed and nothing is in flight, the published
\* progress is complete and its total_files is the size of the snapshot.
C7_FinalCountExact ==
    (Quiescent /\ \E w \in Workers : worker[w].pc = "done")
        => /\ progress.is_complete
           /\ progress.total_files = Len(entries)

(***************************************************************************)
(* The tree, as the properties of the walk read it.                        *)
(***************************************************************************)
NodeIds(t) == 1..Len(t.nodes)

\* The directories of the tree above node n, the home directory left out.
RECURSIVE ProperAncestors(_, _)
ProperAncestors(t, n) ==
    IF t.nodes[n].parent = 0 THEN {}
    ELSE {t.nodes[n].parent} \cup ProperAncestors(t, t.nodes[n].parent)

HiddenNode(t, n) == StartsWithDot(t.nodes[n].name)
ExcludedDir(t, n) == t.nodes[n].dir /\ t.nodes[n].name \in ExcludedNames

\* The nodes that have an entry in ents.
EntryNodes(t, ents) ==
    {n \in NodeIds(t) : \E i \in 1..Len(ents) : ents[i].path = PathOf(t, n)}

\* index_directory is called on directory d (0: the home directory).
RECURSIVE Entered(_, _)
Entered(t, d) ==
    \/ d = 0
    \/ /\ t.nodes[d].dir
       /\ ~HiddenNode(t, d)
       /\ t.nodes[d].name \notin ExcludedNames
       /\ Entered(t, t.nodes[d].parent)
       /\ Listable(t, t.nodes[d].parent)

\* Directory d was visited: entered, and its children listed.
Visited(t, d) == Entered(t, d) /\ Listable(t, d)

\* Node n gets an entry when every listing succeeds.
IndexedIfListable(t, n) ==
    /\ ~HiddenNode(t, n)
    /\ \A a \in ProperAncestors(t, n) :
          t.nodes[a].dir /\ ~HiddenNode(t, a) /\ t.nodes[a].name \notin ExcludedNames

\* Node n lies beneath a directory whose listing fails.
BeneathFailedListing(t, n) ==
    \/ ~t.rootListable
    \/ \E a \in ProperAncestors(t, n) : ~t.nodes[a].listable

\* Some scan has replaced the snapshot.
ScanCommitted == CommittedWorkers # {}

\* C8: the snapshot of a scan has no entry whose name begins with '.', and no
\* entry beneath a directory whose name begins with '.'.
C8_NoHiddenEntries ==
    \A i \in 1..Len(entries) :
        /\ ~StartsWithDot(entries[i].name)
        /\ \A n \in NodeIds(fs) :
              PathOf(fs, n) = entries[i].path
                  => \A a \in ProperAncestors(fs, n) : ~HiddenNode(fs, a)

\* A scan of a tree with hidden files and directories has committed entries.
C8_Witness ==
    /\ ScanCommitted
    /\ entries # <<>>
    /\ \E n \in NodeIds(fs) : HiddenNode(fs, n) /\ ~fs.nodes[n].dir
    /\ \E n, m \in NodeIds(fs) :
          HiddenNode(fs, n) /\ n \in ProperAncestors(fs, m) /\ ~HiddenNode(fs, m)

\* C9: every directory with an excluded name whose parent was visited (entered
\* and listed) has an entry, and none of its descendants has one.
C9_ExcludedListedNotEntered ==
    ScanCommitted =>
        \A n \in NodeIds(fs) :
            (ExcludedDir(fs, n) /\ Visited(fs, fs.nodes[n].parent))
                => /\ n \in EntryNodes(fs, entries)
                   /\ \A m \in NodeIds(fs) :
                         n \in ProperAncestors(fs, m) => m \notin EntryNodes(fs, entries)

\* C9, amended: a directory with an excluded name that does not begin with '.',
\* whose parent was visited, has an entry; no descendant of a directory with an
\* excluded name has one.
C9_ExcludedListedUnlessHidden ==
    ScanCommitted =>
        \A n \in NodeIds(fs) :
            ExcludedDir(fs, n)
                => /\ (~HiddenNode(fs, n) /\ Visited(fs, fs.nodes[n].parent))
                      => n \in EntryNodes(fs, entries)
                   /\ \A m \in NodeIds(fs) :
                         n \in ProperAncestors(fs, m) => m \notin EntryNodes(fs, entries)

\* A committed scan holds the entry of an excluded directory that has children.
C9_Witness ==
    /\ ScanCommitted
    /\ \E n, m \in NodeIds(fs) :
          /\ ExcludedDir(fs, n)
          /\ n \in EntryNodes(fs, entries)
          /\ n \in ProperAncestors(fs, m)

\* C10: a failed listing costs the snapshot the entries beneath that directory
\* and nothing else, and every worker that starts its walk finishes.
C10_ListingFailureIsolated ==
    /\ [](ScanCommitted =>
            /\ EntryNodes(fs, entries) =
                   {n \in NodeIds(fs) :
                       IndexedIfListable(fs, n) /\ ~BeneathFailedListing(fs, n)}
            /\ Len(entries) = Cardinality(EntryNodes(fs, entries)))
    /\ \A w \in Workers : (worker[w].pc = "readdir") ~> (worker[w].pc = "done")

\* A scan committed entries of directories walked after a listing had failed.
C10_Witness ==
    /\ ScanCommitted
    /\ \E n, m \in NodeIds(fs) :
          /\ fs.nodes[n].dir /\ ~fs.nodes[n].listable /\ Entered(fs, n)
          /\ n < m
          /\ fs.nodes[m].parent # 0
          /\ m \in EntryNodes(fs, entries)

(***************************************************************************)
(* Loading and persistence.                                                *)
(***************************************************************************)
\* The index file is missing, unreadable or malformed.
BadIndexFile == ~disk.exists \/ ~disk.readable \/ disk = MalformedIndex

\* C11: a load_saved_index call on a missing, unreadable or malformed index
\* file takes the failure path, returns false, and none of its steps changes
\* entries, lower_names or progress.
C11_FailedLoadChangesNothing ==
    [][ /\ (loadPc = "idle" /\ loadPc' # "idle" /\ BadIndexFile)
            => (loadPc' = "fail" /\ UNCHANGED << entries, lower_names, progress >>)
        /\ (loadPc = "fail" /\ loadPc' # "fail")
            => /\ loadPc' = "idle"
               /\ loadRet' = FALSE
               /\ UNCHANGED << entries, lower_names, progress >> ]_vars

\* A load has failed against an index that a scan had filled and completed.
C11_Witness ==
    /\ loadPc = "fail"
    /\ BadIndexFile
    /\ entries # <<>>
    /\ lower_names # <<>>
    /\ progress.is_complete

\* A worker has written the index file, and the file holds the snapshot that
\* worker had committed.
ScanPersisted == persisted # <<>> /\ disk = File(Serialize(persisted[1]))

\* No start_indexing call has been made since the process started.
FreshProcess == nStarts = 0 /\ nSpawned = 0

\* C12: once a scan has committed and persisted its snapshot, a
\* load_saved_index call in a process that has not scanned reads and parses the
\* file, returns true, and leaves entries with the length and the set of
\* (name, path, is_directory, parent_folder) records of that snapshot.
C12_RoundTrip ==
    [][ /\ (ScanPersisted /\ FreshProcess /\ loadPc = "idle" /\ loadPc' # "idle")
            => loadPc' = "parsed"
        /\ (ScanPersisted /\ FreshProcess /\ loadPc = "progress" /\ loadPc' = "idle")
            => /\ loadRet' = TRUE
               /\ Len(entries') = Len(persisted[1])
               /\ Range(entries') = Range(persisted[1]) ]_vars

\* A restarted process holds, after a load that returned true, the non-empty
\* snapshot a scan of the earlier process had persisted.
C12_Witness ==
    /\ ScanPersisted
    /\ FreshProcess
    /\ loadPc = "idle"
    /\ loadRet = TRUE
    /\ persisted[1] # <<>>
    /\ Range(entries) = Range(persisted[1])

(***************************************************************************)
(* The ranking example.                                                    *)
(***************************************************************************)
LogQuery == <<"l","o","g">>

\* The index holds exactly the four entries of the example.
HoldsLogEntries == Len(entries) = Len(LogEntries) /\ Range(entries) = Range(LogEntries)

Names(res) == [k \in 1..Len(res) |-> res[k].name]

\* C13: for the query "log" against an index holding exactly the files log,
\* logger, app-log and catalog, search returns log, app-log, logger, catalog.
C13_LogExampleBoundaryFirst ==
    [][ (searchPc = "locked" /\ searchPc' = "idle" /\ searchQuery' = LogQuery
         /\ HoldsLogEntries)
        => Names(searchResult') = << <<"l","o","g">>,
                                     <<"a","p","p","-","l","o","g">>,
                                     <<"l","o","g","g","e","r">>,
                                     <<"c","a","t","a","l","o","g">> >> ]_vars

\* C13, amended: for the query "log" against an index holding exactly the
\* files log, logger, app-log and catalog, search returns log, logger, app-log,
\* catalog: the prefix match before the word-boundary match.
C13_LogExamplePrefixFirst ==
    [][ (searchPc = "locked" /\ searchPc' = "idle" /\ searchQuery' = LogQuery
         /\ HoldsLogEntries)
        => Names(searchResult') = << <<"l","o","g">>,
                                     <<"l","o","g","g","e","r">>,
                                     <<"a","p","p","-","l","o","g">>,
                                     <<"c","a","t","a","l","o","g">> >> ]_vars

\* The query "log" has returned all four entries from an index that lists
\* catalog first and log last.
C13_Witness ==
    /\ searchPc = "idle"
    /\ searchQuery = LogQuery
    /\ HoldsLogEntries
    /\ Len(searchResult) = Len(LogEntries)
    /\ entries[1].name = <<"c","a","t","a","l","o","g">>
    /\ entries[4].name = <<"l","o","g">>

(***************************************************************************)
(* The flag, the locks and the end of a scan.                              *)
(***************************************************************************)
\* C14: while is_indexing is true, a scan worker is active (it will clear the
\* flag at lib.rs:380) or a start_indexing call that has set the flag is
\* about to spawn one.
C14_FlagOnlyWhileScanning ==
    is_indexing =>
        \/ ActiveWorkers # {}
        \/ \E c \in Callers : call[c].pc \in {"home", "spawn"}

\* The next step of worker w is a blocking filesystem call: fs::read_dir
\* (lib.rs:217) or fs::write of the index file (lib.rs:388).
FilesystemCallNext(w) == worker[w].pc \in {"readdir", "saveWrite"}

\* Worker w holds the entries mutex.
HoldsEntries(w) == worker[w].pc = "saveWrite" /\ entriesLock = "save"

\* C15: no thread performs a blocking filesystem call while it holds the lock
\* of a shared record, so search_index and get_index_count are never kept
\* waiting for the worker's disk I/O.
C15_NoLockAcrossFilesystemCall ==
    \A w \in Workers : FilesystemCallNext(w) => ~HoldsEntries(w)

\* The threads: the search and the load invocation, each worker, each sync
\* thread.
Threads ==
    { <<"search", 0>>, <<"load", 0>> }
        \cup { <<"worker", w>> : w \in Workers }
        \cup { <<"sync", w>> : w \in Workers }

\* The thread behind the holder recorded for a lock.
OwnerOf(holder) ==
    IF holder = "free" THEN {}
    ELSE IF holder = "search" THEN { <<"search", 0>> }
    ELSE IF holder = "load" THEN { <<"load", 0>> }
    ELSE { <<"worker", w>> : w \in {v \in Workers : worker[v].pc = "saveWrite"} }

\* The threads whose lock (or, for a join, whose end) thread t waits for
\* before its next step.
WaitsFor(t) ==
    IF t[1] = "search" THEN
        IF searchPc = "idle" THEN OwnerOf(Holder(SearchLockOrder[1]))
        ELSE OwnerOf(Holder(SearchLockOrder[2]))
    ELSE IF t[1] = "load" THEN
        IF loadPc = "parsed" THEN OwnerOf(entriesLock)
        ELSE IF loadPc = "lower" THEN OwnerOf(lowerLock)
        ELSE {}
    ELSE IF t[1] = "worker" THEN
        LET w == t[2] IN
        IF worker[w].pc \in {"commitEntries", "saveLock"} THEN OwnerOf(entriesLock)
        ELSE IF worker[w].pc = "commitLower" THEN OwnerOf(lowerLock)
        ELSE IF worker[w].pc \in {"readdir", "loop", "mark"}
             THEN (IF worker[w].sync = "copy" THEN { <<"sync", w>> } ELSE {})
        ELSE IF worker[w].pc = "join"
             THEN (IF worker[w].sync # "done" THEN { <<"sync", w>> } ELSE {})
        ELSE {}
    ELSE {}

\* The threads reached from the set `from` along WaitsFor in at most n steps.
RECURSIVE WaitReach(_, _)
WaitReach(from, n) ==
    IF n = 0 THEN from
    ELSE WaitReach(from \cup UNION { WaitsFor(t) : t \in from }, n - 1)

\* C16: no thread waits, directly or through other waiting threads, for
\* itself; and a thread that is part-way through an operation and waits for
\* nobody can take its next step.
C16_NoWaitingCycle ==
    /\ \A t \in Threads :
          t \notin WaitReach(WaitsFor(t), Cardinality(Threads))
    /\ (searchPc = "locked" /\ WaitsFor(<<"search", 0>>) = {}) => ENABLED SearchRun
    /\ (loadPc # "idle" /\ WaitsFor(<<"load", 0>>) = {}) => ENABLED LoadStep
    /\ \A w \in Workers :
          /\ (worker[w].pc \notin {"none", "done"} /\ WaitsFor(<<"worker", w>>) = {})
                => ENABLED (WalkNext(w) \/ CommitNext(w))
          /\ worker[w].sync \in {"sleep", "copy"} => ENABLED SyncNext(w)

\* A load holds the entries lock and is about to take the progress lock while
\* a sync thread holds its worker's private progress lock, the worker waits
\* for it, and a search waits for the load.
C16_Witness ==
    /\ entriesLock = "load"
    /\ loadPc = "progress"
    /\ searchPc = "idle"
    /\ <<"load", 0>> \in WaitsFor(<<"search", 0>>)
    /\ \E w \in Workers :
          /\ worker[w].sync = "copy"
          /\ worker[w].pc = "loop"
          /\ <<"sync", w>> \in WaitsFor(<<"worker", w>>)

\* The stages of a worker from the replacement of the snapshot on.
PostJoinPcs == {"commitEntries", "commitLower", "commitProgress", "clearFlag",
                "saveLock", "saveWrite", "done"}

\* C17: with fair scheduling every scan that has started finishes: the sync
\* thread's last copy publishes the complete progress with the exact count,
\* the worker replaces the snapshot only after the sync thread has ended, the
\* worker and its sync thread reach their end, and is_complete is true with
\* is_indexing false eventually.
C17_ScanTerminates ==
    /\ [](\A w \in Workers : worker[w].pc \in PostJoinPcs => worker[w].sync = "done")
    /\ [][ \A w \in Workers :
              (worker[w].sync = "copy" /\ worker'[w].sync = "done")
                  => /\ progress'.is_complete
                     /\ progress' = worker[w].prog
                     /\ progress'.total_files = Len(worker[w].new_entries) ]_vars
    /\ \A w \in Workers :
          (worker[w].sync = "sleep") ~> (worker[w].pc = "done" /\ worker[w].sync = "done")
    /\ (ActiveWorkers # {})
          ~> (progress.is_complete /\ ~is_indexing /\ ActiveWorkers = {})

\* A scan has finished with entries: worker and sync thread at their end, the
\* flag cleared, the progress complete and exact.
C17_Witness ==
    /\ \E w \in Workers : worker[w].pc = "done" /\ worker[w].sync = "done"
    /\ ActiveWorkers = {}
    /\ entries # <<>>
    /\ progress.is_complete
    /\ progress.total_files = Len(entries)
    /\ ~is_indexing

\* C18: a get_index_progress call made after a worker was spawned and before
\* that worker has replaced the snapshot does not return is_complete = true.
C18_NotCompleteBeforeCommit == polled.inScan => ~polled.value.is_complete

\* C19: with no start_indexing call, worker or load part-way, lower_names has
\* the length of entries and holds the lowercase of each entry's name, in
\* order.
C19_LowerNamesConsistent ==
    Quiescent =>
        /\ Len(lower_names) = Len(entries)
        /\ \A i \in 1..Len(entries) : lower_names[i] = ToLowercase(entries[i].name)

\* C20: every record returned by get_index_progress has
\* indexed_folders <= total_folders.
C20_IndexedWithinTotal == polled.value.indexed_folders <= polled.value.total_folders

====
